---- MODULE Spec2Model ----
(***************************************************************************)
(* Model of the tree-sitter external scanner for CSV/PSV/TSV empty-field   *)
(* detection (packages/tree-sitter-csv/src/scanner.c).                     *)
(*                                                                         *)
(* The scanner is driven by the tree-sitter engine, which owns the lexer   *)
(* cursor (TSLexer) and calls create / destroy / serialize / deserialize   *)
(* / scan.  The engine is the environment here: it positions the cursor,   *)
(* chooses the valid-symbol array and supplies the buffers.                *)
(***************************************************************************)
EXTENDS Integers, Sequences, FiniteSets, TLC

(***************************************************************************)
(* Bounds of the model.                                                    *)
(***************************************************************************)
MaxLen == 1        \* longest generated document, Spec
MaxLenDet == 1     \* longest generated document, DetSpec
MaxLenConc == 1    \* longest generated document, ConcSpec
MaxBuf == 1        \* longest serialization buffer

(***************************************************************************)
(* enum TokenType                                                          *)
(***************************************************************************)
EMPTY_FIELD == 0
ERROR_SENTINEL == 1
TokenType == {EMPTY_FIELD, ERROR_SENTINEL}

\* const bool *valid_symbols: one flag per external token
ValidSymbolSets == [TokenType -> BOOLEAN]

(***************************************************************************)
(* Code points the scanner compares the look-ahead with.                   *)
(***************************************************************************)
COMMA == 44
TAB == 9
PIPE == 124
LF == 10
CR == 13
\* lexer->lookahead once the input is exhausted
EndOfInput == 0
\* code points that are neither separators nor line endings: 'a', 'b'
OtherCodePoints == {97, 98}
Alphabet == {COMMA, TAB, PIPE, LF, CR, 97}

\* the documents named in the scanner's comments: a,,b  a,b,  a,b,\n  a,b
\* a\t\tb  and a,b\n (a trailing newline already consumed at end of input)
Documents ==
  { <<97, COMMA, COMMA, 98>>,
    <<97, COMMA, 98, COMMA>>,
    <<97, COMMA, 98, COMMA, LF>>,
    <<97, COMMA, 98>>,
    <<97, TAB, TAB, 98>>,
    <<97, COMMA, 98, LF>> }

BoundedSeqs(S, n) == UNION {[1..k -> S] : k \in 0..n}

Inputs == BoundedSeqs(Alphabet, MaxLen) \cup Documents
DetInputs == BoundedSeqs(Alphabet, MaxLenDet)
ConcInputs == BoundedSeqs(Alphabet, MaxLenConc)

Bytes == {0, 255}
Buffers == BoundedSeqs(Bytes, MaxBuf)

(***************************************************************************)
(* TSLexer: the engine's cursor.  pos is the number of code points already *)
(* consumed, lookahead the next code point, token_end the position marked  *)
(* by mark_end (NoMark while unmarked), result_symbol the emitted kind.    *)
(***************************************************************************)
NoMark == -1

LookaheadAt(doc, p) == IF p < Len(doc) THEN doc[p + 1] ELSE EndOfInput

LexerAt(doc, p, te, rs) ==
  [pos |-> p, lookahead |-> LookaheadAt(doc, p), token_end |-> te, result_symbol |-> rs]

\* lexer->mark_end(lexer)
mark_end(lexer) == [lexer EXCEPT !.token_end = lexer.pos]

\* lexer->advance(lexer, false): the scanner never calls it, the engine does
advance(lexer, doc) ==
  [lexer EXCEPT !.pos = lexer.pos + 1, !.lookahead = LookaheadAt(doc, lexer.pos + 1)]

(***************************************************************************)
(* Lifecycle: create / destroy / serialize / deserialize                   *)
(***************************************************************************)
NULL == 0

tree_sitter_csv_external_scanner_create == NULL
tree_sitter_psv_external_scanner_create == tree_sitter_csv_external_scanner_create
tree_sitter_tsv_external_scanner_create == tree_sitter_csv_external_scanner_create

\* returns the payload as the call leaves it
tree_sitter_csv_external_scanner_destroy(payload) == payload
tree_sitter_psv_external_scanner_destroy(payload) == tree_sitter_csv_external_scanner_destroy(payload)
tree_sitter_tsv_external_scanner_destroy(payload) == tree_sitter_csv_external_scanner_destroy(payload)

\* returns the reported length and the buffer as the call leaves it
tree_sitter_csv_external_scanner_serialize(payload, buffer) ==
  [length |-> 0, buffer |-> buffer]
tree_sitter_psv_external_scanner_serialize(payload, buffer) ==
  tree_sitter_csv_external_scanner_serialize(payload, buffer)
tree_sitter_tsv_external_scanner_serialize(payload, buffer) ==
  tree_sitter_csv_external_scanner_serialize(payload, buffer)

\* a deserialize that restores a one-byte state from the buffer
deserialize_RestoresByte(payload, buffer, length) ==
  IF length > 0 THEN buffer[1] ELSE payload

\* returns the payload as the call leaves it
tree_sitter_csv_external_scanner_deserialize(payload, buffer, length) == payload
tree_sitter_psv_external_scanner_deserialize(payload, buffer, length) ==
  tree_sitter_csv_external_scanner_deserialize(payload, buffer, length)
tree_sitter_tsv_external_scanner_deserialize(payload, buffer, length) ==
  tree_sitter_csv_external_scanner_deserialize(payload, buffer, length)

(***************************************************************************)
(* Lookahead classifier                                                    *)
(***************************************************************************)
\* a classifier that forgets the vertical bar
is_separator_NoPipe(c) == c = COMMA \/ c = TAB

is_separator(c) == c = COMMA \/ c = TAB \/ c = PIPE

\* a classifier that also accepts end of input
is_newline_OrEof(c) == c = LF \/ c = CR \/ c = EndOfInput

is_newline(c) == c = LF \/ c = CR

(***************************************************************************)
(* tree_sitter_csv_external_scanner_scan, statement by statement.          *)
(* A frame st is the activation of one call: pc is the source line about   *)
(* to run ("ret" once returned), lexer the cursor the call was handed, ret *)
(* the value returned, marks the number of mark_end calls made so far and  *)
(* statics the file-scope storage of scanner.c (the file declares none).   *)
(***************************************************************************)
NoStatics == <<>>

EnterScan(lexer, statics) ==
  [pc |-> "L123", lexer |-> lexer, ret |-> FALSE, marks |-> 0, statics |-> statics]

Return(st, value) == [st EXCEPT !.pc = "ret", !.ret = value]

\* an error-sentinel check that never declines
scan_L123_NoSentinelCheck(st, valid_symbols) == [st EXCEPT !.pc = "L128"]

\* if (valid_symbols[ERROR_SENTINEL]) return false;
scan_L123(st, valid_symbols) ==
  IF valid_symbols[ERROR_SENTINEL] THEN Return(st, FALSE) ELSE [st EXCEPT !.pc = "L128"]

\* a validity check that marks the token end before it declines
scan_L128_MarksFirst(st, valid_symbols) ==
  LET m == [st EXCEPT !.lexer = mark_end(st.lexer), !.marks = st.marks + 1]
  IN IF ~valid_symbols[EMPTY_FIELD] THEN Return(m, FALSE) ELSE [st EXCEPT !.pc = "L134"]

\* a validity check that also declines right after an emitted empty field
scan_L128_OncePerToken(st, valid_symbols) ==
  IF ~valid_symbols[EMPTY_FIELD] \/ st.lexer.token_end = st.lexer.pos
  THEN Return(st, FALSE) ELSE [st EXCEPT !.pc = "L134"]

\* if (!valid_symbols[EMPTY_FIELD]) return false;
scan_L128(st, valid_symbols) ==
  IF ~valid_symbols[EMPTY_FIELD] THEN Return(st, FALSE) ELSE [st EXCEPT !.pc = "L134"]

\* lexer->mark_end(lexer);
scan_L134(st) ==
  [st EXCEPT !.lexer = mark_end(st.lexer), !.marks = st.marks + 1, !.pc = "L153"]

\* a separator branch that consumes the separator it saw
scan_L153_Consumes(st) ==
  IF is_separator(st.lexer.lookahead)
  THEN Return([st EXCEPT !.lexer = [pos |-> st.lexer.pos + 1,
                                    lookahead |-> EndOfInput,
                                    token_end |-> st.lexer.token_end,
                                    result_symbol |-> EMPTY_FIELD]], TRUE)
  ELSE [st EXCEPT !.pc = "L158"]

\* if (is_separator(lexer->lookahead)) { result_symbol = EMPTY_FIELD; return true; }
scan_L153(st) ==
  IF is_separator(st.lexer.lookahead)
  THEN Return([st EXCEPT !.lexer.result_symbol = EMPTY_FIELD], TRUE)
  ELSE [st EXCEPT !.pc = "L158"]

\* if (is_newline(lexer->lookahead)) { result_symbol = EMPTY_FIELD; return true; }
\* return false;
scan_L158(st) ==
  IF is_newline(st.lexer.lookahead)
  THEN Return([st EXCEPT !.lexer.result_symbol = EMPTY_FIELD], TRUE)
  ELSE Return(st, FALSE)

\* a scan that keeps the look-ahead in a file-scope variable between the
\* mark and the two tests
ScanStep_StaticLookahead(st, valid_symbols) ==
  CASE st.pc = "L123" -> scan_L123(st, valid_symbols)
    [] st.pc = "L128" -> scan_L128(st, valid_symbols)
    [] st.pc = "L134" -> [scan_L134(st) EXCEPT !.statics = <<st.lexer.lookahead>>]
    [] st.pc = "L153" -> scan_L153([st EXCEPT !.lexer.lookahead = st.statics[1]])
    [] st.pc = "L158" -> scan_L158([st EXCEPT !.lexer.lookahead = st.statics[1]])
    [] OTHER -> st

\* one statement of the scan
ScanStep(st, valid_symbols) ==
  CASE st.pc = "L123" -> scan_L123(st, valid_symbols)
    [] st.pc = "L128" -> scan_L128(st, valid_symbols)
    [] st.pc = "L134" -> scan_L134(st)
    [] st.pc = "L153" -> scan_L153(st)
    [] st.pc = "L158" -> scan_L158(st)
    [] OTHER -> st

RECURSIVE ScanRun(_, _)
ScanRun(st, valid_symbols) ==
  IF st.pc = "ret" THEN st ELSE ScanRun(ScanStep(st, valid_symbols), valid_symbols)

\* the whole call: the frame at return
tree_sitter_csv_external_scanner_scan(payload, lexer, statics, valid_symbols) ==
  ScanRun(EnterScan(lexer, statics), valid_symbols)

tree_sitter_psv_external_scanner_scan(payload, lexer, statics, valid_symbols) ==
  tree_sitter_csv_external_scanner_scan(payload, lexer, statics, valid_symbols)

\* a tab-dialect scan that accepts the tab as its only separator
tsv_scan_TabOnly(payload, lexer, statics, valid_symbols) ==
  IF lexer.lookahead \in {COMMA, PIPE}
  THEN tree_sitter_csv_external_scanner_scan(payload,
         [lexer EXCEPT !.lookahead = EndOfInput], statics, valid_symbols)
  ELSE tree_sitter_csv_external_scanner_scan(payload, lexer, statics, valid_symbols)

tree_sitter_tsv_external_scanner_scan(payload, lexer, statics, valid_symbols) ==
  tree_sitter_csv_external_scanner_scan(payload, lexer, statics, valid_symbols)

ScanEntry(dialect, payload, lexer, statics, valid_symbols) ==
  CASE dialect = "csv" -> tree_sitter_csv_external_scanner_scan(payload, lexer, statics, valid_symbols)
    [] dialect = "psv" -> tree_sitter_psv_external_scanner_scan(payload, lexer, statics, valid_symbols)
    [] dialect = "tsv" -> tree_sitter_tsv_external_scanner_scan(payload, lexer, statics, valid_symbols)

(***************************************************************************)
(* State.                                                                  *)
(*   input    the document being parsed (fixed during a parse)             *)
(*   dialect  the grammar in use, which selects the entry points called    *)
(*   alive    TRUE between create and destroy                              *)
(*   payload  the handle create returned                                   *)
(*   statics  the file-scope storage of scanner.c                          *)
(*   lexer    the engine's cursor                                          *)
(*   call     the last call made, with its arguments and results           *)
(*   snap     an earlier scan call, kept for comparison (DetSpec)          *)
(*   cursors, frame   per-instance cursor and scan activation (ConcSpec)   *)
(***************************************************************************)
VARIABLES input, dialect, alive, payload, statics, lexer, call, snap, cursors, frame

vars == <<input, dialect, alive, payload, statics, lexer, call, snap, cursors, frame>>

Dialects == {"csv", "psv", "tsv"}
Instances == {1, 2}

NoValid == [t \in TokenType |-> FALSE]

Call(op) ==
  [op |-> op, valid_symbols |-> NoValid, ret |-> FALSE, marks |-> 0,
   buf_in |-> <<>>, buf_out |-> <<>>, length |-> 0]

NoSnap == [taken |-> FALSE, pos |-> 0, valid_symbols |-> NoValid, ret |-> FALSE, kind |-> NoMark]

IdleFrame ==
  [pc |-> "idle", ret |-> FALSE, marks |-> 0, valid_symbols |-> NoValid,
   alone |-> [ret |-> FALSE, marks |-> 0, lexer |-> LexerAt(<<>>, 0, NoMark, EMPTY_FIELD)]]

CreateEntry(d) ==
  CASE d = "csv" -> tree_sitter_csv_external_scanner_create
    [] d = "psv" -> tree_sitter_psv_external_scanner_create
    [] d = "tsv" -> tree_sitter_tsv_external_scanner_create

DestroyEntry(d, p) ==
  CASE d = "csv" -> tree_sitter_csv_external_scanner_destroy(p)
    [] d = "psv" -> tree_sitter_psv_external_scanner_destroy(p)
    [] d = "tsv" -> tree_sitter_tsv_external_scanner_destroy(p)

SerializeEntry(d, p, buffer) ==
  CASE d = "csv" -> tree_sitter_csv_external_scanner_serialize(p, buffer)
    [] d = "psv" -> tree_sitter_psv_external_scanner_serialize(p, buffer)
    [] d = "tsv" -> tree_sitter_tsv_external_scanner_serialize(p, buffer)

DeserializeEntry(d, p, buffer, length) ==
  CASE d = "csv" -> tree_sitter_csv_external_scanner_deserialize(p, buffer, length)
    [] d = "psv" -> tree_sitter_psv_external_scanner_deserialize(p, buffer, length)
    [] d = "tsv" -> tree_sitter_tsv_external_scanner_deserialize(p, buffer, length)

\* the state after the engine has created the scanner and set its cursor at
\* the start of the document; result_symbol holds whatever the engine left
InitWith(docs) ==
  /\ input \in docs
  /\ dialect \in Dialects
  /\ alive = TRUE
  /\ payload = CreateEntry(dialect)
  /\ statics = NoStatics
  /\ \E rs \in TokenType : lexer = LexerAt(input, 0, NoMark, rs)
  /\ call = Call("create")
  /\ snap = NoSnap
  /\ cursors = [i \in Instances |-> LexerAt(input, 0, NoMark, ERROR_SENTINEL)]
  /\ frame = [i \in Instances |-> IdleFrame]

Init == InitWith(Inputs)

Create ==
  /\ ~alive
  /\ alive' = TRUE
  /\ payload' = CreateEntry(dialect)
  /\ call' = Call("create")
  /\ UNCHANGED <<input, dialect, statics, lexer, cursors, frame>>

Destroy ==
  /\ alive
  /\ alive' = FALSE
  /\ payload' = DestroyEntry(dialect, payload)
  /\ call' = Call("destroy")
  /\ UNCHANGED <<input, dialect, statics, lexer, cursors, frame>>

Serialize ==
  /\ alive
  /\ \E buffer \in Buffers :
       LET r == SerializeEntry(dialect, payload, buffer)
       IN call' = [Call("serialize") EXCEPT !.buf_in = buffer, !.buf_out = r.buffer,
                                            !.length = r.length]
  /\ UNCHANGED <<input, dialect, alive, payload, statics, lexer, cursors, frame>>

Deserialize ==
  /\ alive
  /\ \E buffer \in Buffers : \E length \in 0..Len(buffer) :
       /\ payload' = DeserializeEntry(dialect, payload, buffer, length)
       /\ call' = [Call("deserialize") EXCEPT !.buf_in = buffer, !.buf_out = buffer,
                                              !.length = length]
  /\ UNCHANGED <<input, dialect, alive, statics, lexer, cursors, frame>>

\* the token kind a call hands back: result_symbol when it matched
KindOf(ret, lx) == IF ret THEN lx.result_symbol ELSE NoMark

Scan ==
  /\ alive
  /\ \E valid_symbols \in ValidSymbolSets :
       LET r == ScanEntry(dialect, payload, lexer, statics, valid_symbols)
       IN /\ lexer' = r.lexer
          /\ statics' = r.statics
          /\ call' = [Call("scan") EXCEPT !.valid_symbols = valid_symbols, !.ret = r.ret,
                                          !.marks = r.marks]
  /\ UNCHANGED <<input, dialect, alive, payload, cursors, frame>>

\* the engine consumes one code point (a field character or a separator)
EngineAdvance ==
  /\ alive
  /\ lexer.pos < Len(input)
  /\ lexer' = advance(lexer, input)
  /\ call' = Call("advance")
  /\ UNCHANGED <<input, dialect, alive, payload, statics, cursors, frame>>

\* the engine restarts lexing at another position (incremental re-parse)
EngineSeek ==
  /\ alive
  /\ \E p \in 0..Len(input) :
       /\ p # lexer.pos
       /\ lexer' = LexerAt(input, p, lexer.token_end, lexer.result_symbol)
  /\ call' = Call("seek")
  /\ UNCHANGED <<input, dialect, alive, payload, statics, cursors, frame>>

Next ==
  \/ (Create /\ UNCHANGED snap)
  \/ (Destroy /\ UNCHANGED snap)
  \/ (Serialize /\ UNCHANGED snap)
  \/ (Deserialize /\ UNCHANGED snap)
  \/ (Scan /\ UNCHANGED snap)
  \/ (EngineAdvance /\ UNCHANGED snap)
  \/ (EngineSeek /\ UNCHANGED snap)

Spec == Init /\ [][Next]_vars

(***************************************************************************)
(* DetSpec: the same operations, with an earlier scan call remembered.     *)
(* Any step may record the call it follows, when that call was a scan, so  *)
(* snap always describes a call made before the current one.               *)
(***************************************************************************)
Remember ==
  \/ snap' = snap
  \/ /\ call.op = "scan"
     /\ snap' = [taken |-> TRUE, pos |-> lexer.pos, valid_symbols |-> call.valid_symbols,
                 ret |-> call.ret, kind |-> KindOf(call.ret, lexer)]

DetInit ==
  /\ InitWith(DetInputs)
  /\ dialect = "csv"

DetNext ==
  \/ (Create /\ Remember)
  \/ (Destroy /\ Remember)
  \/ (Serialize /\ Remember)
  \/ (Deserialize /\ Remember)
  \/ (Scan /\ Remember)
  \/ (EngineAdvance /\ Remember)
  \/ (EngineSeek /\ Remember)

DetSpec == DetInit /\ [][DetNext]_vars

(***************************************************************************)
(* ConcSpec: several scanner instances, each with its own cursor on the    *)
(* same document, run their scan calls one statement at a time, in any     *)
(* interleaving.  frame[i].alone is what the call returns when it runs     *)
(* with no other instance active.                                          *)
(***************************************************************************)
Outcome(st) == [ret |-> st.ret, marks |-> st.marks, lexer |-> st.lexer]

ConcInit ==
  /\ InitWith(ConcInputs)
  /\ dialect = "csv"
  /\ lexer.result_symbol = EMPTY_FIELD

\* the engine of instance i starts a token at some position and calls scan
ConcCall(i) ==
  /\ frame[i].pc \in {"idle", "ret"}
  /\ \E p \in 0..Len(input) : \E valid_symbols \in ValidSymbolSets :
       LET cur == LexerAt(input, p, NoMark, cursors[i].result_symbol)
           st == EnterScan(cur, statics)
       IN /\ cursors' = [cursors EXCEPT ![i] = cur]
          /\ frame' = [frame EXCEPT ![i] =
                         [pc |-> st.pc, ret |-> st.ret, marks |-> st.marks,
                          valid_symbols |-> valid_symbols,
                          alone |-> Outcome(tree_sitter_csv_external_scanner_scan(
                                              payload, cur, statics, valid_symbols))]]
  /\ UNCHANGED <<input, dialect, alive, payload, statics, lexer, call, snap>>

\* instance i runs the next statement of its scan call
ConcStep(i) ==
  /\ frame[i].pc \notin {"idle", "ret"}
  /\ LET st == ScanStep([pc |-> frame[i].pc, lexer |-> cursors[i], ret |-> frame[i].ret,
                         marks |-> frame[i].marks, statics |-> statics],
                        frame[i].valid_symbols)
     IN /\ cursors' = [cursors EXCEPT ![i] = st.lexer]
        /\ frame' = [frame EXCEPT ![i].pc = st.pc, ![i].ret = st.ret, ![i].marks = st.marks]
        /\ statics' = st.statics
  /\ UNCHANGED <<input, dialect, alive, payload, lexer, call, snap>>

ConcNext ==
  \/ \E i \in Instances : ConcCall(i)
  \/ \E i \in Instances : ConcStep(i)

ConcSpec == ConcInit /\ [][ConcNext]_vars

(***************************************************************************)
(* Properties of Spec.                                                     *)
(***************************************************************************)

\* C1: whenever ERROR_SENTINEL is valid, scan returns false, whatever the
\* look-ahead and whether or not EMPTY_FIELD is valid.
C1_NonInterference ==
  (call.op = "scan" /\ call.valid_symbols[ERROR_SENTINEL]) => call.ret = FALSE

C1_Witness ==
  /\ call.op = "scan"
  /\ call.valid_symbols[ERROR_SENTINEL]
  /\ call.valid_symbols[EMPTY_FIELD]
  /\ lexer.lookahead = COMMA
  /\ call.ret = FALSE

\* C2: a scan leaves the cursor position and look-ahead as they were (it
\* never advances), and whenever it returns a token the marked token end is
\* the position at which it was invoked.
C2_ZeroWidth ==
  [][call'.op = "scan" =>
       /\ lexer'.pos = lexer.pos
       /\ lexer'.lookahead = lexer.lookahead
       /\ (call'.ret => lexer'.token_end = lexer.pos)]_vars

C2_Witness ==
  /\ call.op = "scan"
  /\ call.ret
  /\ lexer.pos > 0
  /\ lexer.token_end = lexer.pos
  /\ lexer.lookahead = LookaheadAt(input, lexer.pos)

\* C3: in a,b, the scan after the trailing comma, at end of input, with
\* EMPTY_FIELD valid and ERROR_SENTINEL not valid, produces EMPTY_FIELD.
C3_TrailingSeparatorAtEof ==
  ( /\ input = <<97, COMMA, 98, COMMA>>
    /\ call.op = "scan"
    /\ lexer.pos = Len(input)
    /\ call.valid_symbols[EMPTY_FIELD]
    /\ ~call.valid_symbols[ERROR_SENTINEL] )
  => (call.ret /\ lexer.result_symbol = EMPTY_FIELD /\ lexer.token_end = lexer.pos)

C7_StatelessLifecycle ==
  /\ payload = CreateEntry(dialect)
  /\ (call.op = "serialize" => (call.length = 0 /\ call.buf_out = call.buf_in))
  /\ \A buffer \in Buffers :
       LET s == SerializeEntry(dialect, payload, buffer)
       IN /\ DeserializeEntry(dialect, payload, s.buffer, s.length) = payload
          /\ \A length \in 0..Len(buffer) :
               DeserializeEntry(dialect, payload, buffer, length) = CreateEntry(dialect)

C7_Witness ==
  /\ call.op = "deserialize"
  /\ call.length > 0
  /\ call.buf_in[1] # NULL
  /\ payload = NULL

\* C8: whichever dialect's entry point runs, the call returns the match
\* result, result kind and token-end mark that the comma entry point
\* returns on the same cursor and valid-symbol set, and it accepts each of
\* comma, tab and vertical bar as a separator.
C8_DialectEquivalence ==
  [][call'.op = "scan" =>
       LET r == tree_sitter_csv_external_scanner_scan(payload, lexer, statics,
                                                      call'.valid_symbols)
       IN /\ call'.ret = r.ret
          /\ call'.marks = r.marks
          /\ lexer' = r.lexer
          /\ ( ( /\ call'.valid_symbols[EMPTY_FIELD]
                 /\ ~call'.valid_symbols[ERROR_SENTINEL]
                 /\ lexer.lookahead \in {COMMA, TAB, PIPE} ) => call'.ret )]_vars

\* a<TAB><TAB>b in the tab dialect, between the two tabs
C8_Witness ==
  /\ dialect = "tsv"
  /\ input = <<97, TAB, TAB, 98>>
  /\ call.op = "scan"
  /\ lexer.pos = 2
  /\ call.ret
  /\ lexer.result_symbol = EMPTY_FIELD
  /\ lexer.token_end = 2

\* C10: a scan that returns false leaves result_symbol unchanged; when it
\* declines on the valid-symbol checks it leaves the whole cursor untouched
\* and never marks; when it declines on the look-ahead it has marked the
\* token end once and changed nothing else; no call marks more than once.
C10_DeclinedScanFrame ==
  [][call'.op = "scan" =>
       /\ (~call'.ret => lexer'.result_symbol = lexer.result_symbol)
       /\ ( (call'.valid_symbols[ERROR_SENTINEL] \/ ~call'.valid_symbols[EMPTY_FIELD])
              => (call'.marks = 0 /\ lexer' = lexer) )
       /\ ( ( /\ ~call'.valid_symbols[ERROR_SENTINEL]
              /\ call'.valid_symbols[EMPTY_FIELD]
              /\ ~call'.ret )
              => ( /\ call'.marks = 1
                   /\ lexer' = [lexer EXCEPT !.token_end = lexer.pos] ) )
       /\ call'.marks <= 1]_vars

\* a decline on the look-ahead that left a mark behind
C10_Witness ==
  /\ call.op = "scan"
  /\ ~call.ret
  /\ call.valid_symbols[EMPTY_FIELD]
  /\ ~call.valid_symbols[ERROR_SENTINEL]
  /\ call.marks = 1
  /\ lexer.pos > 0
  /\ lexer.token_end = lexer.pos
  /\ lexer.result_symbol = ERROR_SENTINEL

(***************************************************************************)
(* Properties of DetSpec and ConcSpec.                                     *)
(***************************************************************************)

\* C6: a scan at the position and with the valid-symbol set of an earlier
\* scan returns the same match result and the same token kind, whatever
\* calls were made before or between the two.
C6_Determinism ==
  ( /\ snap.taken
    /\ call.op = "scan"
    /\ lexer.pos = snap.pos
    /\ call.valid_symbols = snap.valid_symbols )
  => ( /\ call.ret = snap.ret
       /\ KindOf(call.ret, lexer) = snap.kind )

\* a second matching scan at a position where an earlier scan matched
C6_Witness ==
  /\ snap.taken
  /\ snap.ret
  /\ call.op = "scan"
  /\ lexer.pos = snap.pos
  /\ call.valid_symbols = snap.valid_symbols
  /\ call.ret
  /\ snap.kind = EMPTY_FIELD

\* C9: under every interleaving, a scan call that has returned has the
\* verdict, the cursor (result kind and token-end mark included) and the
\* number of marks it has when run alone; no statement writes file-scope
\* storage, and a statement of one instance leaves the other instances'
\* cursors and activations as they were.
C9_ConcurrentIndependence ==
  /\ [](\A i \in Instances :
          frame[i].pc = "ret" =>
            /\ frame[i].ret = frame[i].alone.ret
            /\ frame[i].marks = frame[i].alone.marks
            /\ cursors[i] = frame[i].alone.lexer)
  /\ [](statics = NoStatics)
  /\ [][\A i \in Instances :
          (frame'[i] # frame[i] \/ cursors'[i] # cursors[i]) =>
            \A j \in Instances \ {i} :
              frame'[j] = frame[j] /\ cursors'[j] = cursors[j]]_vars

\* both instances have returned, one with a token and one without, at
\* different positions of the same document
C9_Witness ==
  /\ frame[1].pc = "ret"
  /\ frame[2].pc = "ret"
  /\ frame[1].ret
  /\ ~frame[2].ret
  /\ frame[2].marks = 1
  /\ cursors[1].pos # cursors[2].pos
  /\ cursors[1].token_end = cursors[1].pos
  /\ cursors[1].result_symbol = EMPTY_FIELD

====
